---- MODULE Spec2Model ----
(***************************************************************************)
(* Model of the SD-Core AMF operator charm (src/src/charm.py).             *)
(*                                                                         *)
(* The charm has one handler, _configure_amf, observed on six events.  A   *)
(* pass of the handler reads the dependencies (container, relations,       *)
(* databases, NRF, storage), sets the unit status and, when every guard    *)
(* passes, pushes the rendered configuration and (re)starts the workload.  *)
(* A pass is one action: the host dispatches one event at a time and the   *)
(* handler runs to completion.                                             *)
(***************************************************************************)
EXTENDS Integers, Sequences, FiniteSets, TLC

VARIABLES
    can_connect,         \* self._amf_container.can_connect()
    relations,           \* relation names r with model.get_relation(r) truthy
    default_db_created,  \* self._default_database.is_resource_created()
    amf_db_created,      \* self._amf_database.is_resource_created()
    default_db_data,     \* fetch_relation_data()[relations[0].id], a dict
    nrf_url,             \* self._nrf_requires.nrf_url
    config_dir,          \* container.exists(CONFIG_DIR_PATH)
    pod_ip,              \* output of unit-get private-address
    config_file,         \* the file CONFIG_DIR_PATH/CONFIG_FILE_NAME in the container
    plan_services,       \* container.get_plan().services
    pushes,              \* number of container.push calls so far
    restarts,            \* number of container.restart calls so far
    status,              \* self.unit.status
    deferred,            \* events the framework holds for redelivery
    pending,             \* observed events emitted by the host, not yet dispatched
    losses,              \* number of dependencies the unit has lost so far
    pass                 \* record of the latest pass of _configure_amf

env_vars == <<can_connect, relations, default_db_created, amf_db_created,
              default_db_data, nrf_url, config_dir, pod_ip>>
workload_vars == <<config_file, plan_services, pushes, restarts>>
vars == <<can_connect, relations, default_db_created, amf_db_created,
          default_db_data, nrf_url, config_dir, pod_ip, config_file,
          plan_services, pushes, restarts, status, deferred, pending, losses,
          pass>>

(***************************************************************************)
(* Bounds of the model.                                                    *)
(***************************************************************************)
MaxPasses == 2
MaxLosses == 1

(***************************************************************************)
(* Program constants (charm.py lines 28-39).                               *)
(***************************************************************************)
SBI_PORT == 29518
NGAPP_PORT == 38412
SCTP_GRPC_PORT == 9000
AMF_DATABASE_NAME == "sdcore_amf"
DEFAULT_DATABASE_NAME == "free5gc"
CONFIG_DIR_PATH == "/free5gc/config"
CONFIG_FILE_NAME == "amfcfg.conf"
CORE_NETWORK_FULL_NAME == "SDCORE5G"
CORE_NETWORK_SHORT_NAME == "SDCORE"

_amf_service_name == "amf"

\* The relations _configure_amf requires, in the order of its loop.
RequiredRelationsSwapped == <<"amf-database", "fiveg_nrf", "default-database">>
RequiredRelations == <<"fiveg_nrf", "amf-database", "default-database">>

\* The six events __init__ observes with _configure_amf.
Events == {"default_database_relation_joined", "amf_database_relation_joined",
           "default_database_created", "amf_database_created",
           "amf_pebble_ready", "nrf_available"}

(***************************************************************************)
(* Values.  A string that the code splits is a sequence of one-character   *)
(* strings; None is a value of its own; a dict is a function.              *)
(***************************************************************************)
None == "None"
EmptyDict == [k \in {} |-> <<>>]

Min(S) == CHOOSE x \in S : \A y \in S : x <= y

\* Python truthiness of an Optional[str]: None and "" are falsy.
Truthy(s) == s # None /\ s # ""

\* s.split(",")[0]: the part of s before its first comma, s if it has none.
SplitFirstLast(s) ==
    LET commas == {i \in 1..Len(s) : s[i] = ","}
    IN  IF commas = {} THEN s
        ELSE SubSeq(s, CHOOSE i \in commas : \A j \in commas : j <= i, Len(s))
SplitFirst(s) ==
    LET commas == {i \in 1..Len(s) : s[i] = ","}
    IN  IF commas = {} THEN s ELSE SubSeq(s, 1, Min(commas) - 1)

MaintenanceStatus(msg) == [name |-> "maintenance", message |-> msg]
BlockedStatus(msg) == [name |-> "blocked", message |-> msg]
WaitingStatus(msg) == [name |-> "waiting", message |-> msg]
ActiveStatus == [name |-> "active", message |-> ""]

\* Sample values of the dependencies.
NrfUrls == {None, "", "http://nrf:29510"}
PodIps == {"10.0.0.1", "10.0.0.2"}
UriStrings == {<<"a">>, <<"a", ",", "b">>, <<"b", ",", "a">>}
RelationData ==
    {EmptyDict, [username |-> <<"u">>]}
        \cup {[username |-> <<"u">>, uris |-> s] : s \in UriStrings}

(***************************************************************************)
(* Helpers of the charm.                                                   *)
(***************************************************************************)
\* _relation_created: bool(self.model.get_relation(relation_name)).
_relation_created(relation_name) == relation_name \in relations

_default_database_is_available == default_db_created

_amf_database_is_available == amf_db_created

\* _get_default_database_info: {} unless the default database is created.
_get_default_database_info_unguarded == default_db_data
_get_default_database_info ==
    IF ~_default_database_is_available THEN EmptyDict ELSE default_db_data

\* The "uris" entry of the amf database relation, once that database is
\* created.  The charm requires the relation (lines 60-62) and never reads
\* its data; the sample differs from every URI of the default database.
AmfDatabaseUris == IF amf_db_created THEN <<"c", ",", "d">> ELSE <<>>

\* Python truthiness of a dict: the empty dict is falsy.
DictTruthy(d) == DOMAIN d # {}

_amf_hostname == "sdcore-amf.model.svc.cluster.local"

\* _render_config_file: the template rendered with the ten values.  The
\* content is the tuple of the values the template interpolates.
_render_config_file(default_database_name, amf_database_name, amf_url, ngapp_port, sctp_grpc_port, sbi_port, url, database_url, full_network_name, short_network_name) ==
    <<ngapp_port, sctp_grpc_port, sbi_port, url, amf_url,
      default_database_name, amf_database_name, database_url,
      full_network_name, short_network_name>>

NoFile == [exists |-> FALSE, content |-> <<>>]
File(content) == [exists |-> TRUE, content |-> content]

\* _config_file_content_matches: the file exists and its content is equal.
_config_file_content_matches_never(content) == FALSE
_config_file_content_matches(content) ==
    IF ~config_file.exists THEN FALSE
    ELSE IF config_file.content # content THEN FALSE
    ELSE TRUE

_amf_environment_variables ==
    [GOTRACEBACK |-> "crash",
     GRPC_GO_LOG_VERBOSITY_LEVEL |-> "99",
     GRPC_GO_LOG_SEVERITY_LEVEL |-> "info",
     GRPC_TRACE |-> "all",
     GRPC_VERBOSITY |-> "DEBUG",
     POD_IP |-> pod_ip,
     MANAGED_BY_CONFIG_POD |-> "true"]

\* The services of a layer whose service has environment env.
LayerServices(env) ==
    _amf_service_name :>
        [override |-> "replace",
         startup |-> "enabled",
         command |-> "/free5gc/amf/amf --amfcfg " \o CONFIG_DIR_PATH \o "/"
                         \o CONFIG_FILE_NAME,
         environment |-> env]

\* _amf_pebble_layer.services
_amf_pebble_layer_stale_address ==
    LayerServices([_amf_environment_variables EXCEPT !.POD_IP = "10.0.0.1"])
_amf_pebble_layer == LayerServices(_amf_environment_variables)

EmptyPlan == [k \in {} |-> <<>>]

\* The condition of _configure_amf_workload: add the layer and restart.
_configure_amf_workload_no_force(restart) == plan_services # _amf_pebble_layer
_configure_amf_workload_always(restart) == TRUE
_configure_amf_workload(restart) ==
    plan_services # _amf_pebble_layer \/ restart

\* The calls _configure_amf_workload makes when its condition holds, in
\* order (lines 215-216).
WorkloadCallsRestartFirst == <<"restart", "add_layer">>
WorkloadCalls == <<"add_layer", "restart">>

(***************************************************************************)
(* The guard chain of _configure_amf (lines 89-116).                       *)
(***************************************************************************)
\* The loop over the required relations: the index of the first relation
\* that is not created, 0 when all are.
MissingRelation ==
    LET missing == {i \in 1..Len(RequiredRelations) :
                        ~_relation_created(RequiredRelations[i])}
    IN  IF missing = {} THEN 0 ELSE Min(missing)

\* The number of the first guard that fails, 0 when none does.
FailingGuardNoStorage ==
    IF ~can_connect THEN 1
    ELSE IF MissingRelation # 0 THEN 2
    ELSE IF ~_default_database_is_available THEN 3
    ELSE IF ~_amf_database_is_available THEN 4
    ELSE IF ~DictTruthy(_get_default_database_info) THEN 5
    ELSE IF ~Truthy(nrf_url) THEN 6
    ELSE 0
FailingGuardNoNrf ==
    IF ~can_connect THEN 1
    ELSE IF MissingRelation # 0 THEN 2
    ELSE IF ~_default_database_is_available THEN 3
    ELSE IF ~_amf_database_is_available THEN 4
    ELSE IF ~DictTruthy(_get_default_database_info) THEN 5
    ELSE IF ~config_dir THEN 7
    ELSE 0
FailingGuard ==
    IF ~can_connect THEN 1
    ELSE IF MissingRelation # 0 THEN 2
    ELSE IF ~_default_database_is_available THEN 3
    ELSE IF ~_amf_database_is_available THEN 4
    ELSE IF ~DictTruthy(_get_default_database_info) THEN 5
    ELSE IF ~Truthy(nrf_url) THEN 6
    ELSE IF ~config_dir THEN 7
    ELSE 0

\* The status a failing guard assigns.
GuardStatus(g) ==
    CASE g = 1 -> MaintenanceStatus("Waiting for service to start")
      [] g = 2 -> BlockedStatus("Waiting for "
                      \o RequiredRelations[MissingRelation] \o " relation")
      [] g = 3 -> WaitingStatus("Waiting for the default database to be available")
      [] g = 4 -> WaitingStatus("Waiting for the amf database to be available")
      [] g = 5 -> WaitingStatus("Waiting for default database info to be available")
      [] g = 6 -> WaitingStatus("Waiting for NRF data to be available")
      [] g = 7 -> WaitingStatus("Waiting for storage to be attached")

\* Whether a failing guard calls event.defer() before it returns.
GuardDefersAll(g) == TRUE
GuardDefers(g) == g \in {1, 3, 4, 5, 6, 7}

\* The content _configure_amf renders (lines 117-128).
RenderedContent ==
    _render_config_file(DEFAULT_DATABASE_NAME, AMF_DATABASE_NAME, _amf_hostname,
                        NGAPP_PORT, SCTP_GRPC_PORT, SBI_PORT, nrf_url,
                        SplitFirst(_get_default_database_info["uris"]),
                        CORE_NETWORK_FULL_NAME, CORE_NETWORK_SHORT_NAME)

(***************************************************************************)
(* One pass of _configure_amf on `event`.  `held` is the set of deferred   *)
(* events without the notice being dispatched; `seq` numbers the pass.     *)
(* pass.ops lists the calls of the pass that change state, in order.       *)
(***************************************************************************)
_configure_amf(event, held, redelivered, seq) ==
    LET g == FailingGuard
        done(ops, assigned) ==
            pass' = [seq |-> seq, event |-> event, redelivered |-> redelivered,
                     ops |-> ops, assigned |-> assigned]
    IN
    /\ UNCHANGED env_vars
    /\ IF g # 0
       THEN \* a guard fails: status, defer (but for a missing relation), return
            /\ status' = GuardStatus(g)
            /\ deferred' = IF GuardDefers(g) THEN held \cup {event} ELSE held
            /\ done(IF GuardDefers(g) THEN <<"set_status", "defer">>
                                      ELSE <<"set_status">>, GuardStatus(g).name)
            /\ UNCHANGED workload_vars
       ELSE IF "uris" \notin DOMAIN _get_default_database_info
       THEN \* line 125: KeyError, the handler raises; the notice of a
            \* re-emitted event is not dropped, a fresh event is not deferred
            /\ deferred' = IF redelivered THEN held \cup {event} ELSE held
            /\ done(<<"raise">>, "none")
            /\ UNCHANGED <<status, workload_vars>>
       ELSE IF ~_config_file_content_matches(RenderedContent)
       THEN \* push, then _configure_amf_workload(restart=True)
            /\ config_file' = File(RenderedContent)
            /\ pushes' = pushes + 1
            /\ IF _configure_amf_workload(TRUE)
               THEN /\ plan_services' = _amf_pebble_layer
                    /\ restarts' = restarts + 1
                    /\ done(<<"push">> \o WorkloadCalls \o <<"set_status">>,
                            "active")
               ELSE /\ UNCHANGED <<plan_services, restarts>>
                    /\ done(<<"push", "set_status">>, "active")
            /\ status' = ActiveStatus
            /\ deferred' = held
       ELSE \* _configure_amf_workload()
            /\ IF _configure_amf_workload(FALSE)
               THEN /\ plan_services' = _amf_pebble_layer
                    /\ restarts' = restarts + 1
                    /\ done(WorkloadCalls \o <<"set_status">>, "active")
               ELSE /\ UNCHANGED <<plan_services, restarts>>
                    /\ done(<<"set_status">>, "active")
            /\ status' = ActiveStatus
            /\ deferred' = held
            /\ UNCHANGED <<config_file, pushes>>

(***************************************************************************)
(* The host.  Every hook run constructs the charm anew in whatever state   *)
(* the dependencies and the workload are in, so the initial states range   *)
(* over them.  While the container is unreachable no pass reads its plan   *)
(* or its filesystem, so the initial states leave them empty; the config   *)
(* file lives in the config directory.                                     *)
(***************************************************************************)
StoredContents ==
    {_render_config_file(DEFAULT_DATABASE_NAME, AMF_DATABASE_NAME, _amf_hostname,
                         NGAPP_PORT, SCTP_GRPC_PORT, SBI_PORT, u, SplitFirst(s),
                         CORE_NETWORK_FULL_NAME, CORE_NETWORK_SHORT_NAME) :
        u \in {x \in NrfUrls : Truthy(x)}, s \in UriStrings}

StoredPlans ==
    {EmptyPlan} \cup
    {LayerServices([_amf_environment_variables EXCEPT !.POD_IP = ip]) :
        ip \in PodIps}

NoPass == [seq |-> 0, event |-> "none", redelivered |-> FALSE,
           ops |-> <<>>, assigned |-> "none"]

Init ==
    /\ can_connect \in BOOLEAN
    /\ relations \in SUBSET {RequiredRelations[i] : i \in 1..Len(RequiredRelations)}
    /\ default_db_created \in BOOLEAN
    /\ amf_db_created \in BOOLEAN
    /\ default_db_data \in RelationData
    /\ nrf_url \in NrfUrls
    /\ config_dir \in (IF can_connect THEN BOOLEAN ELSE {FALSE})
    /\ pod_ip \in PodIps
    /\ config_file \in (IF config_dir THEN {NoFile} \cup {File(c) : c \in StoredContents}
                                      ELSE {NoFile})
    /\ plan_services \in (IF can_connect THEN StoredPlans ELSE {EmptyPlan})
    /\ pushes = 0
    /\ restarts = 0
    /\ status = MaintenanceStatus("")
    /\ deferred = {}
    /\ pending = {}
    /\ losses = 0
    /\ pass = NoPass

\* The host dispatches an observed event to _configure_amf.
Dispatch(e) ==
    /\ pass.seq < MaxPasses
    /\ _configure_amf(e, deferred, FALSE, pass.seq + 1)
    /\ UNCHANGED <<pending, losses>>

\* The framework re-emits a deferred event to _configure_amf.
Redeliver(e) ==
    /\ pass.seq < MaxPasses
    /\ e \in deferred
    /\ _configure_amf(e, deferred \ {e}, TRUE, pass.seq + 1)
    /\ UNCHANGED <<pending, losses>>

DispatchAny == \E e \in Events : Dispatch(e)
RedeliverAny == \E e \in Events : Redeliver(e)

Next == DispatchAny \/ RedeliverAny

Spec == Init /\ [][Next]_vars

(***************************************************************************)
(* The life of a freshly deployed unit.  Nothing is ready at first; the    *)
(* host makes one dependency ready at a time and emits the event the charm *)
(* observes for it, if any; it dispatches the emitted events one at a time *)
(* and re-emits the deferred ones.  The charm reads whether the default    *)
(* database is created and what its relation data hold separately (lines   *)
(* 259 and 267): the data may be complete when the database is created or  *)
(* be completed later.  Relation creation of fiveg_nrf, the completion of  *)
(* the relation data and the attachment of the storage emit no event the   *)
(* charm observes.                                                         *)
(***************************************************************************)
LifeInit ==
    /\ can_connect = FALSE
    /\ relations = {}
    /\ default_db_created = FALSE
    /\ amf_db_created = FALSE
    /\ default_db_data = EmptyDict
    /\ nrf_url = None
    /\ config_dir = FALSE
    /\ pod_ip = "10.0.0.1"
    /\ config_file = NoFile
    /\ plan_services = EmptyPlan
    /\ pushes = 0
    /\ restarts = 0
    /\ status = MaintenanceStatus("")
    /\ deferred = {}
    /\ pending = {}
    /\ losses = 0
    /\ pass = NoPass

\* In the life of a unit the passes are not counted: seq alternates.
NextSeq == IF pass.seq = 1 THEN 2 ELSE 1

HostStep(emitted) ==
    /\ pending' = pending \cup emitted
    /\ UNCHANGED <<workload_vars, status, deferred, losses, pass>>

\* The workload container becomes reachable: amf_pebble_ready (line 77).
PebbleReady ==
    /\ ~can_connect
    /\ can_connect' = TRUE
    /\ UNCHANGED <<relations, default_db_created, amf_db_created,
                   default_db_data, nrf_url, config_dir, pod_ip>>
    /\ HostStep({"amf_pebble_ready"})

\* A required relation is created; the database relations emit
\* relation-joined (lines 67-74).
JoinedEvent(r) ==
    CASE r = "default-database" -> {"default_database_relation_joined"}
      [] r = "amf-database" -> {"amf_database_relation_joined"}
      [] OTHER -> {}

RelationCreated(r) ==
    /\ r \notin relations
    /\ relations' = relations \cup {r}
    /\ UNCHANGED <<can_connect, default_db_created, amf_db_created,
                   default_db_data, nrf_url, config_dir, pod_ip>>
    /\ HostStep(JoinedEvent(r))

\* The relation data of the default database in the life of a unit: none
\* yet, the credentials only, or the credentials and the URIs.
LifeRelationData ==
    {EmptyDict, [username |-> <<"u">>],
     [username |-> <<"u">>, uris |-> <<"a", ",", "b">>]}

\* The default database is provisioned: database_created (line 75).  The
\* relation data hold whatever the provider has published by then.
DefaultDatabaseCreated ==
    /\ "default-database" \in relations
    /\ ~default_db_created
    /\ default_db_created' = TRUE
    /\ default_db_data' \in LifeRelationData
    /\ UNCHANGED <<can_connect, relations, amf_db_created, nrf_url,
                   config_dir, pod_ip>>
    /\ HostStep({"default_database_created"})

\* The provider of the default database completes the relation data read
\* at line 259; the charm observes no event for it.
DefaultDatabaseInfoPublished ==
    /\ default_db_created
    /\ "uris" \notin DOMAIN default_db_data
    /\ default_db_data' = [username |-> <<"u">>, uris |-> <<"a", ",", "b">>]
    /\ UNCHANGED <<can_connect, relations, default_db_created, amf_db_created,
                   nrf_url, config_dir, pod_ip>>
    /\ HostStep({})

\* The amf database is provisioned: database_created (line 76).
AmfDatabaseCreated ==
    /\ "amf-database" \in relations
    /\ ~amf_db_created
    /\ amf_db_created' = TRUE
    /\ UNCHANGED <<can_connect, relations, default_db_created, default_db_data,
                   nrf_url, config_dir, pod_ip>>
    /\ HostStep({"amf_database_created"})

\* The NRF publishes its URL: nrf_available (line 78).
NrfAvailable ==
    /\ "fiveg_nrf" \in relations
    /\ ~Truthy(nrf_url)
    /\ nrf_url' = "http://nrf:29510"
    /\ UNCHANGED <<can_connect, relations, default_db_created, amf_db_created,
                   default_db_data, config_dir, pod_ip>>
    /\ HostStep({"nrf_available"})

\* The storage is attached: the config directory appears in the container.
StorageAttached ==
    /\ can_connect
    /\ ~config_dir
    /\ config_dir' = TRUE
    /\ UNCHANGED <<can_connect, relations, default_db_created, amf_db_created,
                   default_db_data, nrf_url, pod_ip>>
    /\ HostStep({})

\* The host dispatches an emitted event.
Deliver(e) ==
    /\ e \in pending
    /\ pending' = pending \ {e}
    /\ _configure_amf(e, deferred, FALSE, NextSeq)
    /\ UNCHANGED losses

\* The framework re-emits a deferred event.
Reemit(e) ==
    /\ e \in deferred
    /\ _configure_amf(e, deferred \ {e}, TRUE, NextSeq)
    /\ UNCHANGED <<pending, losses>>

RelationCreatedAny == \E r \in {"fiveg_nrf", "amf-database", "default-database"} :
                          RelationCreated(r)
DeliverAny == \E e \in Events : Deliver(e)
ReemitAny == \E e \in Events : Reemit(e)

LifeNext ==
    \/ PebbleReady
    \/ RelationCreatedAny
    \/ DefaultDatabaseCreated
    \/ DefaultDatabaseInfoPublished
    \/ AmfDatabaseCreated
    \/ NrfAvailable
    \/ StorageAttached
    \/ DeliverAny
    \/ ReemitAny

\* Every dependency becomes ready, every emitted event is dispatched and
\* every deferred event is re-emitted again and again.
LifeFairness ==
    /\ WF_vars(PebbleReady)
    /\ \A r \in {"fiveg_nrf", "amf-database", "default-database"} :
           WF_vars(RelationCreated(r))
    /\ WF_vars(DefaultDatabaseCreated)
    /\ WF_vars(DefaultDatabaseInfoPublished)
    /\ WF_vars(AmfDatabaseCreated)
    /\ WF_vars(NrfAvailable)
    /\ WF_vars(StorageAttached)
    /\ \A e \in Events : WF_vars(Deliver(e)) /\ WF_vars(Reemit(e))

SpecLife == LifeInit /\ [][LifeNext]_vars /\ LifeFairness

(***************************************************************************)
(* The life of a unit that loses dependencies after it has become Active.  *)
(* The charm observes no event for a relation that is removed, a storage   *)
(* that is detached or a container that goes away (lines 67-78 observe     *)
(* relation-joined, database-created, pebble-ready and nrf-available       *)
(* only), so a loss emits nothing.                                         *)
(***************************************************************************)
\* A dependency is lost between hook runs of a unit that reports Active:
\* the host has dispatched every event it emitted.
MayLose == status = ActiveStatus /\ pending = {} /\ losses < MaxLosses

RelationRemoved(r) ==
    /\ MayLose
    /\ r \in relations
    /\ relations' = relations \ {r}
    /\ default_db_created' = IF r = "default-database" THEN FALSE ELSE default_db_created
    /\ default_db_data' = IF r = "default-database" THEN EmptyDict ELSE default_db_data
    /\ amf_db_created' = IF r = "amf-database" THEN FALSE ELSE amf_db_created
    /\ nrf_url' = IF r = "fiveg_nrf" THEN None ELSE nrf_url
    /\ losses' = losses + 1
    /\ UNCHANGED <<can_connect, config_dir, pod_ip>>
    /\ UNCHANGED <<workload_vars, status, deferred, pending, pass>>

StorageDetached ==
    /\ MayLose
    /\ config_dir
    /\ config_dir' = FALSE
    /\ config_file' = NoFile
    /\ losses' = losses + 1
    /\ UNCHANGED <<can_connect, relations, default_db_created, amf_db_created,
                   default_db_data, nrf_url, pod_ip>>
    /\ UNCHANGED <<plan_services, pushes, restarts, status, deferred, pending, pass>>

ContainerLost ==
    /\ MayLose
    /\ can_connect
    /\ can_connect' = FALSE
    /\ plan_services' = EmptyPlan
    /\ losses' = losses + 1
    /\ UNCHANGED <<relations, default_db_created, amf_db_created,
                   default_db_data, nrf_url, config_dir, pod_ip>>
    /\ UNCHANGED <<config_file, pushes, restarts, status, deferred, pending, pass>>

RelationRemovedAny == \E r \in {"fiveg_nrf", "amf-database", "default-database"} :
                          RelationRemoved(r)

LossNext ==
    \/ PebbleReady
    \/ RelationCreatedAny
    \/ DefaultDatabaseCreated
    \/ DefaultDatabaseInfoPublished
    \/ AmfDatabaseCreated
    \/ NrfAvailable
    \/ StorageAttached
    \/ DeliverAny
    \/ ReemitAny
    \/ RelationRemovedAny
    \/ StorageDetached
    \/ ContainerLost

SpecLoss == LifeInit /\ [][LossNext]_vars

(***************************************************************************)
(* Properties.  The definitions below state what a pass is expected to do  *)
(* from the dependencies alone, without the operators of the guard chain.  *)
(***************************************************************************)
\* A step that runs one pass of _configure_amf.
PassStep == pass'.seq # pass.seq

\* The pass that has just run returned (it did not raise).
Returned(p) == p.assigned # "none"

Count(op, ops) == Cardinality({i \in 1..Len(ops) : ops[i] = op})

InfoEmpty == ~default_db_created \/ DOMAIN default_db_data = {}

AllReady ==
    /\ can_connect
    /\ {"fiveg_nrf", "amf-database", "default-database"} \subseteq relations
    /\ default_db_created
    /\ amf_db_created
    /\ ~InfoEmpty
    /\ nrf_url \notin {None, ""}
    /\ config_dir

\* The status of the first failing guard, in the order of the guard chain.
ExpectedStatus ==
    IF ~can_connect THEN MaintenanceStatus("Waiting for service to start")
    ELSE IF "fiveg_nrf" \notin relations
        THEN BlockedStatus("Waiting for fiveg_nrf relation")
    ELSE IF "amf-database" \notin relations
        THEN BlockedStatus("Waiting for amf-database relation")
    ELSE IF "default-database" \notin relations
        THEN BlockedStatus("Waiting for default-database relation")
    ELSE IF ~default_db_created
        THEN WaitingStatus("Waiting for the default database to be available")
    ELSE IF ~amf_db_created
        THEN WaitingStatus("Waiting for the amf database to be available")
    ELSE IF InfoEmpty
        THEN WaitingStatus("Waiting for default database info to be available")
    ELSE IF nrf_url \in {None, ""}
        THEN WaitingStatus("Waiting for NRF data to be available")
    ELSE IF ~config_dir
        THEN WaitingStatus("Waiting for storage to be attached")
    ELSE ActiveStatus

\* The pass can render: every guard passes and the info has a "uris" entry.
Renders == AllReady /\ "uris" \in DOMAIN default_db_data

\* The content the pass renders, when it can.
ExpectedContent ==
    <<NGAPP_PORT, SCTP_GRPC_PORT, SBI_PORT, nrf_url, _amf_hostname,
      DEFAULT_DATABASE_NAME, AMF_DATABASE_NAME, SplitFirst(default_db_data["uris"]),
      CORE_NETWORK_FULL_NAME, CORE_NETWORK_SHORT_NAME>>

ContentMatches == config_file.exists /\ config_file.content = ExpectedContent

PlanMatches == plan_services = LayerServices(_amf_environment_variables)

WorkloadUntouched ==
    /\ config_file' = config_file
    /\ plan_services' = plan_services
    /\ pushes' = pushes
    /\ restarts' = restarts
    /\ Count("push", pass'.ops) = 0
    /\ Count("add_layer", pass'.ops) = 0
    /\ Count("restart", pass'.ops) = 0

\* C1: a completed pass leaves the unit status equal to the status of the
\* first failing guard in the fixed order (container, the three relations
\* in order, default database, amf database, database info, NRF URL,
\* storage), and the status is Active exactly when no guard fails.
C1_FirstFailingGuardDecidesStatus ==
    [][PassStep /\ Returned(pass')
        => /\ status' = ExpectedStatus
           /\ (status'.name = "active" <=> AllReady)]_vars

\* Several guards fail at once and the status is that of the earliest one.
C1_Witness ==
    /\ pass.seq > 0
    /\ can_connect
    /\ relations = {"default-database"}
    /\ ~default_db_created /\ ~amf_db_created /\ ~config_dir
    /\ status = BlockedStatus("Waiting for fiveg_nrf relation")

\* C2: in a pass where all guards pass and the stored file holds exactly
\* the rendered content, nothing is pushed and the restart is not forced:
\* the service restarts only if the plan differs from the desired layer.
C2_MatchingContentNoPushNoForcedRestart ==
    [][PassStep /\ Renders /\ ContentMatches
        => /\ config_file' = config_file
           /\ pushes' = pushes
           /\ Count("push", pass'.ops) = 0
           /\ (PlanMatches => restarts' = restarts
                               /\ Count("restart", pass'.ops) = 0)]_vars

\* A pass found the stored content equal and the plan equal: it only set
\* the status.
C2_Witness ==
    /\ pass.seq = 1
    /\ pass.ops = <<"set_status">>
    /\ status = ActiveStatus
    /\ Renders /\ ContentMatches
    /\ pushes = 0 /\ restarts = 0

\* C3: in a pass where all guards pass and the stored file is absent or
\* differs from the rendered content, the content is written, the layer is
\* applied and the service restarted whatever the plan, and the pass ends
\* Active with the stored content equal to the rendered content.
C3_DifferingContentPushedAndRestarted ==
    [][PassStep /\ AllReady
            /\ (~config_file.exists \/ (Renders /\ ~ContentMatches))
        => /\ "uris" \in DOMAIN default_db_data
           /\ config_file' = File(ExpectedContent)
           /\ pushes' = pushes + 1
           /\ plan_services' = LayerServices(_amf_environment_variables)
           /\ restarts' = restarts + 1
           /\ pass'.ops = <<"push", "add_layer", "restart", "set_status">>
           /\ status' = ActiveStatus]_vars

\* C4: a push or a restart happens only in a pass where the rendered
\* content differed from the stored one (or no file existed) or the plan
\* differed from the desired layer; with matching content the layer is
\* added and the service restarted exactly when the plan differs, and with
\* both unchanged the pass restarts nothing and ends Active.
C4_PushAndRestartOnlyOnChange ==
    [][PassStep
        => /\ (pushes' # pushes \/ restarts' # restarts
                    \/ config_file' # config_file \/ plan_services' # plan_services)
                => Renders /\ (~ContentMatches \/ ~PlanMatches)
           /\ (Renders /\ ContentMatches
                => /\ (restarts' = restarts + 1 <=> ~PlanMatches)
                   /\ (Count("add_layer", pass'.ops) = 1 <=> ~PlanMatches)
                   /\ (Count("restart", pass'.ops) = 1 <=> ~PlanMatches)
                   /\ restarts' \in {restarts, restarts + 1}
                   /\ status' = ActiveStatus)]_vars

\* The content matched and the plan differed: layer added, service
\* restarted, nothing pushed.
C4_Witness ==
    /\ pass.seq = 1
    /\ pass.ops = <<"add_layer", "restart", "set_status">>
    /\ pushes = 0 /\ restarts = 1
    /\ status = ActiveStatus
    /\ ContentMatches /\ PlanMatches

\* C5: a pass that stops at a failing guard leaves the stored file, the
\* plan and the service as they were: no push, no add_layer, no restart;
\* only the status and the deferred set may change.
C5_FailingGuardLeavesWorkloadUntouched ==
    [][PassStep /\ ~AllReady
        => /\ WorkloadUntouched
           /\ status'.name \in {"maintenance", "blocked", "waiting"}
           /\ UNCHANGED <<env_vars, pending, losses>>]_vars

\* A pass stopped at the storage guard, the last one, with a stale plan in
\* the container, and touched nothing.
C5_Witness ==
    /\ pass.seq > 0
    /\ status = WaitingStatus("Waiting for storage to be attached")
    /\ ~config_dir
    /\ ~PlanMatches
    /\ pushes = 0 /\ restarts = 0

\* C6: the event of a pass is deferred, once, exactly when the pass ends
\* Maintenance or Waiting; a pass that ends Blocked or Active defers nothing.
C6_DeferredIffMaintenanceOrWaiting ==
    [][PassStep
        => LET n == Count("defer", pass'.ops)
           IN  /\ n <= 1
               /\ (n = 1 <=> pass'.assigned \in {"maintenance", "waiting"})
               /\ (n = 1 => pass'.event \in deferred')
               /\ (n = 0 /\ pass'.redelivered => pass'.event \notin deferred')
               /\ (n = 0 /\ ~pass'.redelivered => deferred' = deferred)
               /\ deferred' \subseteq deferred \cup {pass'.event}]_vars

\* An event deferred by one pass was redelivered, met the same unready
\* dependency and was deferred again: it is held once.
C6_Witness ==
    /\ pass.seq = 2
    /\ pass.redelivered
    /\ pass.assigned = "waiting"
    /\ pass.event \in deferred
    /\ Cardinality(deferred) = 1

\* C8: every pass assigns the unit status exactly once, on every path, and
\* the value is Blocked, Waiting, Maintenance or Active.
C8_StatusAssignedOncePerPass ==
    pass.seq > 0
        => /\ Count("set_status", pass.ops) = 1
           /\ pass.assigned \in {"blocked", "waiting", "maintenance", "active"}
           /\ status.name = pass.assigned

\* C9: no dependency condition makes a pass raise: every pass ends with a
\* status assigned.
C9_NoPassRaises ==
    pass.seq > 0 => Count("raise", pass.ops) = 0 /\ Returned(pass)

C10_ActiveImpliesReadyNow ==
    (status = ActiveStatus /\ pending = {} /\ deferred = {})
        => /\ can_connect
           /\ {"fiveg_nrf", "amf-database", "default-database"} \subseteq relations
           /\ default_db_created /\ amf_db_created
           /\ nrf_url \notin {None, ""}
           /\ config_dir

\* C10 as amended: the status changes only in a pass that assigns it, and
\* a pass assigns Active only when every dependency is ready at that time;
\* a status of Active says that they were ready in the pass that set it.
C10_ActiveSetOnlyWhenReady ==
    [][/\ (status' # status => PassStep /\ Returned(pass'))
       /\ (PassStep /\ pass'.assigned = "active" => AllReady /\ AllReady')
       /\ (PassStep /\ Returned(pass')
              => (status' = ActiveStatus <=> pass'.assigned = "active"))]_vars

\* A pass set the status to Active with every dependency ready and nothing
\* is left to dispatch.
C10_Witness ==
    /\ status = ActiveStatus
    /\ pass.assigned = "active"
    /\ pending = {} /\ deferred = {}
    /\ AllReady
    /\ restarts = 1

\* The position of the first call op in ops, 0 when ops has none.
Position(op, ops) ==
    IF Count(op, ops) = 0 THEN 0 ELSE Min({i \in 1..Len(ops) : ops[i] = op})

\* C12: in a pass where the rendered content differs from the stored one,
\* the new file is pushed, then the layer is added, then the service is
\* restarted, then the status is set to Active: each of the four calls
\* happens once, the restart never precedes the push and the status is set
\* only after the restart.
C12_PushThenAddLayerThenRestart ==
    [][PassStep /\ Renders /\ ~ContentMatches
        => LET ops == pass'.ops
           IN  /\ \A op \in {"push", "add_layer", "restart", "set_status"} :
                      Count(op, ops) = 1
               /\ Position("push", ops) < Position("add_layer", ops)
               /\ Position("add_layer", ops) < Position("restart", ops)
               /\ Position("restart", ops) < Position("set_status", ops)
               /\ Len(ops) = 4
               /\ status' = ActiveStatus]_vars

\* A pass pushed the content rendered from the uris "b,a" as its first
\* call and restarted the service as its third.
C12_Witness ==
    /\ pass.seq = 1
    /\ Position("push", pass.ops) = 1
    /\ Position("restart", pass.ops) = 3
    /\ pushes = 1 /\ restarts = 1
    /\ default_db_data["uris"] = <<"b", ",", "a">>
    /\ config_file.exists /\ config_file.content[8] = <<"b">>
    /\ status = ActiveStatus

\* Nothing is left to reconcile: the stored file holds the content the
\* dependencies render to and the plan holds the desired layer.  It stays so
\* while the dependency values, the pod address and the workload are
\* unchanged.
Reconciled == Renders /\ ContentMatches /\ PlanMatches

\* C13: a pass that ends Active leaves the unit reconciled, and a pass on a
\* reconciled unit, of a fresh or of a re-emitted event, pushes nothing,
\* adds no layer, restarts nothing and ends Active; in the life of a unit
\* whose dependencies stay ready the unit is still reconciled at every pass
\* after one that ended Active, so the config is written at most once and
\* the workload restarted at most once.
C13_IdempotentOnceActive ==
    [][PassStep
        => /\ (pass'.assigned = "active" => Reconciled')
           /\ (Reconciled => /\ WorkloadUntouched
                              /\ pass'.ops = <<"set_status">>
                              /\ status' = ActiveStatus)
           /\ (pass.assigned = "active" => Reconciled)
           /\ pushes' <= 1
           /\ restarts' <= 1]_vars

\* After the unit became Active a re-emitted event ran a pass that only set
\* the status, while another deferred event is still held: one push and one
\* restart in all.
C13_Witness ==
    /\ pass.redelivered
    /\ pass.ops = <<"set_status">>
    /\ status = ActiveStatus
    /\ deferred # {}
    /\ pushes = 1 /\ restarts = 1

\* C14: at the end of every pass that sets the status to Active, the stored
\* config file holds the content rendered from the dependency values of
\* that pass, and the services of the plan are those of the desired layer:
\* its command, its startup policy and its environment with the current
\* pod address.
C14_ActiveMeansFileAndPlanAsDesired ==
    [][PassStep /\ pass'.assigned = "active"
        => /\ "uris" \in DOMAIN default_db_data
           /\ config_file' = File(ExpectedContent)
           /\ DOMAIN plan_services' = {"amf"}
           /\ plan_services'["amf"].command
                  = "/free5gc/amf/amf --amfcfg /free5gc/config/amfcfg.conf"
           /\ plan_services'["amf"].startup = "enabled"
           /\ plan_services'["amf"].environment.POD_IP = pod_ip
           /\ plan_services' = LayerServices(_amf_environment_variables)]_vars

\* A pass found the plan of another pod address in the container and ended
\* Active with the plan of the current one, the stored content untouched.
C14_Witness ==
    /\ pass.seq = 1
    /\ pass.ops = <<"add_layer", "restart", "set_status">>
    /\ status = ActiveStatus
    /\ pod_ip = "10.0.0.2"
    /\ plan_services["amf"].environment.POD_IP = "10.0.0.2"
    /\ config_file.exists /\ pushes = 0

\* p is the first element of the comma-separated string s: the prefix of s
\* that holds no comma and ends where s ends or right before a comma.
IsFirstElement(p, s) ==
    \E n \in 0..Len(s) :
        /\ p = SubSeq(s, 1, n)
        /\ \A i \in 1..n : s[i] # ","
        /\ n = Len(s) \/ s[n + 1] = ","

\* The elements of the comma-separated string s.
Elements(s) ==
    {SubSeq(s, b[1], b[2]) :
        b \in {c \in (1..Len(s) + 1) \X (0..Len(s)) :
                  /\ c[1] <= c[2] + 1
                  /\ c[1] = 1 \/ s[c[1] - 1] = ","
                  /\ c[2] = Len(s) \/ s[c[2] + 1] = ","
                  /\ \A k \in c[1]..c[2] : s[k] # ","}}

\* C15: the default database info is empty whenever the default database
\* is not created, so a pass stops at the info guard only with the database
\* created and no relation data; and the database URL of the content a pass
\* stores is the first element of the "uris" value of the default database
\* relation, not a later element and not a URI of the amf database.
C15_DatabaseUrlIsFirstDefaultUri ==
    [][PassStep
        => /\ (~default_db_created => DOMAIN _get_default_database_info = {})
           /\ (status' = WaitingStatus("Waiting for default database info to be available")
                  => default_db_created /\ DOMAIN default_db_data = {})
           /\ (pass'.assigned = "active"
                  => /\ default_db_created
                     /\ "uris" \in DOMAIN default_db_data
                     /\ config_file'.exists
                     /\ IsFirstElement(config_file'.content[8],
                                       default_db_data["uris"])
                     /\ config_file'.content[8]
                            \in Elements(default_db_data["uris"])
                     /\ config_file'.content[8] \notin Elements(AmfDatabaseUris))]_vars

\* A pass stored a content whose database URL is "a", the first of the two
\* URIs "a,b" of the default database, with the amf database created.
C15_Witness ==
    /\ pass.seq = 1
    /\ pass.assigned = "active"
    /\ amf_db_created
    /\ Count("push", pass.ops) = 1
    /\ default_db_data["uris"] = <<"a", ",", "b">>
    /\ config_file.content[8] = <<"a">>
====
